---- MODULE Spec2Model ----
(***************************************************************************)
(* The MarketServiceAgent of market_service/agent.py: the cyclic phase     *)
(* state machine, the two Director callbacks that drive it, and the two    *)
(* RPC operations gated by the current phase.                              *)
(*                                                                         *)
(* The callbacks are modelled statement by statement (pc names the next    *)
(* source line of the running callback); the RPC handlers run as one step. *)
(* MarketList, PolyLineFactory and format_timestamp are collaborators      *)
(* whose code is outside agent.py; they are modelled from their contract.  *)
(***************************************************************************)
EXTENDS Integers, Sequences, FiniteSets, TLC

VARIABLES
    state,             \* self.state, the attribute the Machine keeps on the agent
    market_list,       \* self.market_list: None until onstart, then the registry
    pc,                \* position of the running Director callback, "idle" if none
    timestamp,         \* argument of the running (or latest) callback
    unformed_markets,  \* local of begin_collect_offers (line 202)
    published,         \* what the agent handed to vip.pubsub.publish, in order
    calls,             \* what the running (or latest) callback has done, in order
    cb,                \* which callback ran last, from which phase, and how it ended
    response,          \* what the latest RPC returned or raised to its caller
    now,               \* the Director's clock: number of callbacks started
    director           \* self.director: the periods the Director was built with

vars == <<state, market_list, pc, timestamp, unformed_markets, published,
          calls, cb, response, now, director>>

(***************************************************************************)
(* Bounds                                                                  *)
(***************************************************************************)
NumAgents == 1
MaxCallbacks == 3

\* The market names the participants use, in the registry's listing order.
MarketNames == <<"M1", "M2">>
Markets == {MarketNames[i] : i \in DOMAIN MarketNames}
Identities == 1..NumAgents
Roles == {"buyer", "seller"}

(***************************************************************************)
(* Phases and the transition table                                         *)
(***************************************************************************)
INITIAL_WAIT == "service_initial_wait"
COLLECT_RESERVATIONS == "service_collect_reservations"
COLLECT_OFFERS == "service_collect_offers"
NO_MARKETS == "service_has_no_markets"

states == {INITIAL_WAIT, COLLECT_RESERVATIONS, COLLECT_OFFERS, NO_MARKETS}

Edge(t, s, d) == [trigger |-> t, source |-> s, dest |-> d]

\* Mutant of transitions: the edge out of NO_MARKETS is missing.
transitions_without_no_markets_edge ==
    { Edge("start_reservations", INITIAL_WAIT, COLLECT_RESERVATIONS),
      Edge("start_offers_no_markets", COLLECT_RESERVATIONS, NO_MARKETS),
      Edge("start_offers_has_markets", COLLECT_RESERVATIONS, COLLECT_OFFERS),
      Edge("start_reservations", COLLECT_OFFERS, COLLECT_RESERVATIONS) }

\* Mutant of transitions: the edge out of NO_MARKETS leads to INITIAL_WAIT.
transitions_back_to_initial_wait ==
    { Edge("start_reservations", INITIAL_WAIT, COLLECT_RESERVATIONS),
      Edge("start_offers_no_markets", COLLECT_RESERVATIONS, NO_MARKETS),
      Edge("start_offers_has_markets", COLLECT_RESERVATIONS, COLLECT_OFFERS),
      Edge("start_reservations", COLLECT_OFFERS, COLLECT_RESERVATIONS),
      Edge("start_reservations", NO_MARKETS, INITIAL_WAIT) }

\* Mutant of transitions: start_reservations has an edge from
\* COLLECT_RESERVATIONS to itself.
transitions_with_reservations_self_edge ==
    { Edge("start_reservations", INITIAL_WAIT, COLLECT_RESERVATIONS),
      Edge("start_offers_no_markets", COLLECT_RESERVATIONS, NO_MARKETS),
      Edge("start_offers_has_markets", COLLECT_RESERVATIONS, COLLECT_OFFERS),
      Edge("start_reservations", COLLECT_OFFERS, COLLECT_RESERVATIONS),
      Edge("start_reservations", NO_MARKETS, COLLECT_RESERVATIONS),
      Edge("start_reservations", COLLECT_RESERVATIONS, COLLECT_RESERVATIONS) }

\* Mutant of transitions: no start_reservations edge out of COLLECT_OFFERS.
transitions_without_edge_from_collect_offers ==
    { Edge("start_reservations", INITIAL_WAIT, COLLECT_RESERVATIONS),
      Edge("start_offers_no_markets", COLLECT_RESERVATIONS, NO_MARKETS),
      Edge("start_offers_has_markets", COLLECT_RESERVATIONS, COLLECT_OFFERS),
      Edge("start_reservations", NO_MARKETS, COLLECT_RESERVATIONS) }

transitions ==
    { Edge("start_reservations", INITIAL_WAIT, COLLECT_RESERVATIONS),
      Edge("start_offers_no_markets", COLLECT_RESERVATIONS, NO_MARKETS),
      Edge("start_offers_has_markets", COLLECT_RESERVATIONS, COLLECT_OFFERS),
      Edge("start_reservations", COLLECT_OFFERS, COLLECT_RESERVATIONS),
      Edge("start_reservations", NO_MARKETS, COLLECT_RESERVATIONS) }

Triggers == {"start_reservations", "start_offers_no_markets", "start_offers_has_markets"}

MARKET_RESERVE == "MARKET_RESERVE"
MARKET_BID == "MARKET_BID"

\* The Machine of line 172 is built without ignore_invalid_triggers, so a
\* trigger with no edge from the current state raises MachineError and
\* leaves the state alone; with an edge the state becomes its dest.
HasEdge(trigger, s) == \E e \in transitions : e.trigger = trigger /\ e.source = s

Dest(trigger, s) ==
    (CHOOSE e \in transitions : e.trigger = trigger /\ e.source = s).dest

\* Mutant of Fire: an invalid trigger is ignored without an exception.
Fire_ignoring_invalid_triggers(trigger, s) ==
    IF HasEdge(trigger, s)
    THEN [state |-> Dest(trigger, s), raised |-> FALSE]
    ELSE [state |-> s, raised |-> FALSE]

Fire(trigger, s) ==
    IF HasEdge(trigger, s)
    THEN [state |-> Dest(trigger, s), raised |-> FALSE]
    ELSE [state |-> s, raised |-> TRUE]

(***************************************************************************)
(* MarketParticipant and the registry (MarketList)                         *)
(***************************************************************************)
MarketParticipant(buyer_seller, identity) ==
    [buyer_seller |-> buyer_seller, identity |-> identity]

Participants == {MarketParticipant(r, a) : r \in Roles, a \in Identities}

None == [none |-> TRUE]

\* A market exists in the registry once it holds a reservation.
MarketList ==
    [reservations |-> [m \in Markets |-> {}],
     offers |-> [m \in Markets |-> {}],
     collecting |-> {}]

has_market(ml, m) == ml.reservations[m] # {}

\* Formed: at least two distinct participant roles reserved.
has_market_formed(ml, m) ==
    Cardinality({p.buyer_seller : p \in ml.reservations[m]}) >= 2

market_count(ml) == Cardinality({m \in Markets : has_market(ml, m)})

\* The names of the existing markets that have not formed.
unformed_market_list(ml) ==
    SelectSeq(MarketNames, LAMBDA m : has_market(ml, m) /\ ~has_market_formed(ml, m))

market_list_make_reservation(ml, m, participant) ==
    [ml EXCEPT !.reservations[m] = @ \cup {participant}]

clear_reservations(ml) == MarketList

\* Offer collection begins on the formed markets; unformed ones are skipped.
collect_offers(ml) ==
    [ml EXCEPT !.collecting = {m \in Markets : has_market_formed(ml, m)}]

\* Reporting the markets that failed to clear leaves reservations in place;
\* clear_reservations follows it.
send_market_failure_errors(ml) == ml

\* An offer is taken from a reserved participant of a market that is
\* collecting offers; otherwise the intake fails and stores nothing.
OfferIntakeOk(ml, m, participant) ==
    m \in ml.collecting /\ participant \in ml.reservations[m]

market_list_make_offer(ml, m, participant, curve) ==
    [ml EXCEPT !.offers[m] = @ \cup {<<participant, curve>>}]

(***************************************************************************)
(* Curves and timestamps                                                   *)
(***************************************************************************)
Num(n) == [num |-> n]
Str(s) == [str |-> s]

RawCurves ==
    { << <<Num(10), Num(5)>>, <<Num(12), Num(3)>> >>,
      << <<Str("x"), Str("y")>> >> }

IsNumber(v) == "num" \in DOMAIN v

Malformed(offer) ==
    \E i \in 1..Len(offer) : ~IsNumber(offer[i][1]) \/ ~IsNumber(offer[i][2])

fromTupples(offer) ==
    [i \in 1..Len(offer) |-> <<offer[i][1].num, offer[i][2].num>>]

format_timestamp(t) == [iso |-> t]

(***************************************************************************)
(* The agent                                                               *)
(***************************************************************************)
\* Mutant of has_any_markets: <= for <.
has_any_markets_counting_equal ==
    Len(unformed_market_list(market_list)) <= market_count(market_list)

\* Mutant of has_any_markets: any market with a reservation counts.
has_any_markets_ignoring_unformed ==
    0 < market_count(market_list)

has_any_markets ==
    Len(unformed_market_list(market_list)) < market_count(market_list)

\* What the registry holds when a callback asks: some market has formed.
AnyFormed(ml) == \E m \in Markets : has_market_formed(ml, m)

\* Defaults of the configuration (lines 145-147 and 163).
DefaultMarketPeriod == 300
DefaultReservationDelay == 0
DefaultOfferDelay == 120

\* Line 176: the Director keeps the three periods it is given.
Director(market_period, reservation_delay, offer_delay) ==
    [market_period |-> market_period,
     reservation_delay |-> reservation_delay,
     offer_delay |-> offer_delay]

NoCallback == [op |-> "none", from |-> INITIAL_WAIT, formed |-> FALSE, outcome |-> "none"]

\* Mutant of Init: the Machine starts in COLLECT_RESERVATIONS.
Init_collecting_reservations ==
    /\ state = COLLECT_RESERVATIONS
    /\ market_list = None
    /\ pc = "idle"
    /\ timestamp = 0
    /\ unformed_markets = <<>>
    /\ published = <<>>
    /\ calls = <<>>
    /\ cb = NoCallback
    /\ response = [peer |-> 0, op |-> "none", result |-> "none"]
    /\ now = 0
    /\ director = Director(DefaultMarketPeriod, DefaultReservationDelay, DefaultOfferDelay)

Init ==
    /\ state = INITIAL_WAIT
    /\ market_list = None
    /\ pc = "idle"
    /\ timestamp = 0
    /\ unformed_markets = <<>>
    /\ published = <<>>
    /\ calls = <<>>
    /\ cb = NoCallback
    /\ response = [peer |-> 0, op |-> "none", result |-> "none"]
    /\ now = 0
    /\ director = Director(DefaultMarketPeriod, DefaultReservationDelay, DefaultOfferDelay)

\* Mutant of Serialized: handlers start at any time.
NotSerialized == TRUE

\* Timer callbacks and remote calls are processed one at a time, in arrival
\* order: no handler starts while a callback is between two of its lines.
Serialized == pc = "idle"

\* The Director is started by onstart (line 181) and calls back from then on.
DirectorStarted == market_list # None /\ now < MaxCallbacks

Notice(topic, message) == [topic |-> topic, message |-> message]

onstart ==
    /\ market_list = None
    /\ Serialized
    /\ market_list' = MarketList
    /\ UNCHANGED <<state, pc, timestamp, unformed_markets, published, calls,
                   cb, response, now, director>>

\* Mutant of send_collect_reservations_request: the notice goes out before
\* the trigger is fired.
send_collect_reservations_request_publishing_first ==
    /\ Serialized
    /\ DirectorStarted
    /\ published' = Append(published, Notice(MARKET_RESERVE, format_timestamp(now)))
    /\ LET f == Fire("start_reservations", state)
       IN /\ state' = f.state
          /\ pc' = IF f.raised THEN "idle" ELSE "L186"
          /\ cb' = [op |-> "reservations", from |-> state, formed |-> FALSE,
                    outcome |-> IF f.raised THEN "MachineError" ELSE "running"]
    /\ timestamp' = now
    /\ now' = now + 1
    /\ calls' = <<"publish", "start_reservations">>
    /\ UNCHANGED <<market_list, unformed_markets, response, director>>

\* Lines 183-185: entry of the callback and the start_reservations trigger.
send_collect_reservations_request ==
    /\ Serialized
    /\ DirectorStarted
    /\ LET f == Fire("start_reservations", state)
       IN /\ state' = f.state
          /\ pc' = IF f.raised THEN "idle" ELSE "L186"
          /\ cb' = [op |-> "reservations", from |-> state, formed |-> FALSE,
                    outcome |-> IF f.raised THEN "MachineError" ELSE "running"]
    /\ timestamp' = now
    /\ now' = now + 1
    /\ calls' = <<"start_reservations">>
    /\ UNCHANGED <<market_list, unformed_markets, published, response, director>>

\* Line 186.
reservations_send_market_failure_errors ==
    /\ pc = "L186"
    /\ market_list' = send_market_failure_errors(market_list)
    /\ calls' = Append(calls, "send_market_failure_errors")
    /\ pc' = "L187"
    /\ UNCHANGED <<state, timestamp, unformed_markets, published, cb, response, now, director>>

\* Line 187.
reservations_clear_reservations ==
    /\ pc = "L187"
    /\ market_list' = clear_reservations(market_list)
    /\ calls' = Append(calls, "clear_reservations")
    /\ pc' = "L188"
    /\ UNCHANGED <<state, timestamp, unformed_markets, published, cb, response, now, director>>

\* Lines 188-190.
reservations_publish ==
    /\ pc = "L188"
    /\ published' = Append(published, Notice(MARKET_RESERVE, format_timestamp(timestamp)))
    /\ calls' = Append(calls, "publish")
    /\ cb' = [cb EXCEPT !.outcome = "done"]
    /\ pc' = "idle"
    /\ UNCHANGED <<state, market_list, timestamp, unformed_markets, response, now, director>>

\* Mutant of send_collect_offers_request: after start_offers_no_markets the
\* callback goes on into the offer-collection lines.
send_collect_offers_request_falling_through ==
    /\ Serialized
    /\ DirectorStarted
    /\ timestamp' = now
    /\ now' = now + 1
    /\ IF has_any_markets
       THEN /\ pc' = "L200"
            /\ cb' = [op |-> "offers", from |-> state,
                      formed |-> AnyFormed(market_list), outcome |-> "running"]
            /\ calls' = <<>>
            /\ UNCHANGED state
       ELSE LET f == Fire("start_offers_no_markets", state)
            IN /\ state' = f.state
               /\ pc' = IF f.raised THEN "idle" ELSE "L201"
               /\ cb' = [op |-> "offers", from |-> state,
                         formed |-> AnyFormed(market_list),
                         outcome |-> IF f.raised THEN "MachineError" ELSE "running"]
               /\ calls' = <<"start_offers_no_markets">>
    /\ UNCHANGED <<market_list, unformed_markets, published, response, director>>

\* Lines 192-196: the test, and on its else branch the start_offers_no_markets
\* trigger; the then branch enters begin_collect_offers.
send_collect_offers_request ==
    /\ Serialized
    /\ DirectorStarted
    /\ timestamp' = now
    /\ now' = now + 1
    /\ IF has_any_markets
       THEN /\ pc' = "L200"
            /\ cb' = [op |-> "offers", from |-> state,
                      formed |-> AnyFormed(market_list), outcome |-> "running"]
            /\ calls' = <<>>
            /\ UNCHANGED state
       ELSE LET f == Fire("start_offers_no_markets", state)
            IN /\ state' = f.state
               /\ pc' = "idle"
               /\ cb' = [op |-> "offers", from |-> state,
                         formed |-> AnyFormed(market_list),
                         outcome |-> IF f.raised THEN "MachineError" ELSE "done"]
               /\ calls' = <<"start_offers_no_markets">>
    /\ UNCHANGED <<market_list, unformed_markets, published, response, director>>

\* Lines 198-200.
begin_collect_offers ==
    /\ pc = "L200"
    /\ LET f == Fire("start_offers_has_markets", state)
       IN /\ state' = f.state
          /\ pc' = IF f.raised THEN "idle" ELSE "L201"
          /\ cb' = [cb EXCEPT !.outcome = IF f.raised THEN "MachineError" ELSE "running"]
    /\ calls' = Append(calls, "start_offers_has_markets")
    /\ UNCHANGED <<market_list, timestamp, unformed_markets, published, response, now, director>>

\* Mutant of offers_collect_offers: the reservations are dropped once offer
\* collection has begun.
offers_collect_offers_dropping_reservations ==
    /\ pc = "L201"
    /\ market_list' = [collect_offers(market_list) EXCEPT
                          !.reservations = [m \in Markets |-> {}]]
    /\ calls' = Append(calls, "collect_offers")
    /\ pc' = "L202"
    /\ UNCHANGED <<state, timestamp, unformed_markets, published, cb, response, now, director>>

\* Line 201.
offers_collect_offers ==
    /\ pc = "L201"
    /\ market_list' = collect_offers(market_list)
    /\ calls' = Append(calls, "collect_offers")
    /\ pc' = "L202"
    /\ UNCHANGED <<state, timestamp, unformed_markets, published, cb, response, now, director>>

\* Line 202.
offers_unformed_market_list ==
    /\ pc = "L202"
    /\ unformed_markets' = unformed_market_list(market_list)
    /\ pc' = "L203"
    /\ UNCHANGED <<state, market_list, timestamp, published, calls, cb, response, now, director>>

\* Lines 203-205; the local dies with the call.
offers_publish ==
    /\ pc = "L203"
    /\ published' = Append(published,
                           Notice(MARKET_BID, <<format_timestamp(timestamp), unformed_markets>>))
    /\ calls' = Append(calls, "publish")
    /\ cb' = [cb EXCEPT !.outcome = "done"]
    /\ unformed_markets' = <<>>
    /\ pc' = "idle"
    /\ UNCHANGED <<state, market_list, timestamp, response, now, director>>

Reply(identity, op, result) == [peer |-> identity, op |-> op, result |-> result]

\* Mutant of accept_reservation: the participant is built as a buyer
\* whatever role was requested.
accept_reservation_always_buyer(buyer_seller, identity, market_name) ==
    /\ market_list' = market_list_make_reservation(
                          market_list, market_name, MarketParticipant("buyer", identity))
    /\ response' = Reply(identity, "make_reservation", "ok")

\* Lines 217-220.
accept_reservation(buyer_seller, identity, market_name) ==
    /\ market_list' = market_list_make_reservation(
                          market_list, market_name, MarketParticipant(buyer_seller, identity))
    /\ response' = Reply(identity, "make_reservation", "ok")

\* Mutant of reject_reservation: the participant is forwarded before the
\* error is raised.
reject_reservation_after_intake(buyer_seller, identity, market_name) ==
    /\ response' = Reply(identity, "make_reservation", "RuntimeError: not accepting reservations")
    /\ market_list' =
           IF market_list = None THEN market_list
           ELSE market_list_make_reservation(
                    market_list, market_name, MarketParticipant(buyer_seller, identity))

\* Lines 222-224.
reject_reservation(buyer_seller, identity, market_name) ==
    /\ response' = Reply(identity, "make_reservation", "RuntimeError: not accepting reservations")
    /\ UNCHANGED market_list

\* Mutant of make_reservation: the gate tests the offer phase.
make_reservation_gated_on_offers(market_name, buyer_seller, identity) ==
    /\ Serialized
    /\ IF state = COLLECT_OFFERS
       THEN accept_reservation(buyer_seller, identity, market_name)
       ELSE reject_reservation(buyer_seller, identity, market_name)
    /\ UNCHANGED <<state, pc, timestamp, unformed_markets, published, calls, cb, now, director>>

\* Lines 207-215; identity is the peer of the RPC context.
make_reservation(market_name, buyer_seller, identity) ==
    /\ Serialized
    /\ IF state = COLLECT_RESERVATIONS
       THEN accept_reservation(buyer_seller, identity, market_name)
       ELSE reject_reservation(buyer_seller, identity, market_name)
    /\ UNCHANGED <<state, pc, timestamp, unformed_markets, published, calls, cb, now, director>>

\* Mutant of accept_offer: the points parsed before the failing one are kept
\* in the registry as the participant's curve.
accept_offer_storing_partial_curve(buyer_seller, identity, market_name, offer) ==
    LET participant == MarketParticipant(buyer_seller, identity)
        parsed == CHOOSE n \in 0..Len(offer) :
                      /\ \A i \in 1..n : IsNumber(offer[i][1]) /\ IsNumber(offer[i][2])
                      /\ n < Len(offer) => ~(IsNumber(offer[n + 1][1]) /\ IsNumber(offer[n + 1][2]))
    IN IF Malformed(offer)
       THEN /\ market_list' = market_list_make_offer(
                                  market_list, market_name, participant,
                                  fromTupples(SubSeq(offer, 1, parsed)))
            /\ response' = Reply(identity, "make_offer", "MalformedCurve")
       ELSE IF OfferIntakeOk(market_list, market_name, participant)
       THEN /\ market_list' = market_list_make_offer(
                                  market_list, market_name, participant, fromTupples(offer))
            /\ response' = Reply(identity, "make_offer", "ok")
       ELSE /\ response' = Reply(identity, "make_offer", "IntakeError")
            /\ UNCHANGED market_list

\* Lines 236-240.
accept_offer(buyer_seller, identity, market_name, offer) ==
    LET participant == MarketParticipant(buyer_seller, identity)
    IN IF Malformed(offer)
       THEN /\ response' = Reply(identity, "make_offer", "MalformedCurve")
            /\ UNCHANGED market_list
       ELSE IF OfferIntakeOk(market_list, market_name, participant)
       THEN /\ market_list' = market_list_make_offer(
                                  market_list, market_name, participant, fromTupples(offer))
            /\ response' = Reply(identity, "make_offer", "ok")
       ELSE /\ response' = Reply(identity, "make_offer", "IntakeError")
            /\ UNCHANGED market_list

\* Lines 242-244.
reject_offer(buyer_seller, identity, market_name, offer) ==
    /\ response' = Reply(identity, "make_offer", "RuntimeError: not accepting offers")
    /\ UNCHANGED market_list

\* Lines 226-234.
make_offer(market_name, buyer_seller, identity, offer) ==
    /\ Serialized
    /\ IF state = COLLECT_OFFERS
       THEN accept_offer(buyer_seller, identity, market_name, offer)
       ELSE reject_offer(buyer_seller, identity, market_name, offer)
    /\ UNCHANGED <<state, pc, timestamp, unformed_markets, published, calls, cb, now, director>>

MakeReservation ==
    \E m \in Markets, r \in Roles, a \in Identities : make_reservation(m, r, a)

MakeOffer ==
    \E m \in Markets, r \in Roles, a \in Identities, o \in RawCurves :
        make_offer(m, r, a, o)

Next ==
    \/ onstart
    \/ send_collect_reservations_request
    \/ reservations_send_market_failure_errors
    \/ reservations_clear_reservations
    \/ reservations_publish
    \/ send_collect_offers_request
    \/ begin_collect_offers
    \/ offers_collect_offers
    \/ offers_unformed_market_list
    \/ offers_publish
    \/ MakeReservation
    \/ MakeOffer

Spec == Init /\ [][Next]_vars

(***************************************************************************)
(* The agent built from a configuration file                               *)
(***************************************************************************)
\* Lines 145-147: the three periods are read from the configuration, each
\* with its default; here the default configuration and one whose
\* offer_delay is not below its market_period.
Configurations ==
    { Director(DefaultMarketPeriod, DefaultReservationDelay, DefaultOfferDelay),
      Director(DefaultOfferDelay, DefaultReservationDelay, DefaultMarketPeriod) }

\* Lines 126-150 and 163-176: the agent is constructed from whatever the
\* configuration holds.
InitConfig ==
    /\ state = INITIAL_WAIT
    /\ market_list = None
    /\ pc = "idle"
    /\ timestamp = 0
    /\ unformed_markets = <<>>
    /\ published = <<>>
    /\ calls = <<>>
    /\ cb = NoCallback
    /\ response = [peer |-> 0, op |-> "none", result |-> "none"]
    /\ now = 0
    /\ director \in Configurations

SpecConfig == InitConfig /\ [][Next]_vars

(***************************************************************************)
(* The agent driven by the Director's cadence                              *)
(***************************************************************************)
\* The configuration under which the Director's cadence is guaranteed.
CadenceHolds ==
    /\ 0 <= director.offer_delay
    /\ director.offer_delay < director.market_period

\* The reservation callback comes once per market period: first, and then
\* after the offer callback of the period before.
cadence_reservations ==
    /\ CadenceHolds
    /\ cb.op # "reservations"
    /\ send_collect_reservations_request

\* The offer callback comes offer_delay after each reservation callback,
\* before the next one.
cadence_offers ==
    /\ CadenceHolds
    /\ cb.op = "reservations"
    /\ send_collect_offers_request

NextCadence ==
    \/ onstart
    \/ cadence_reservations
    \/ reservations_send_market_failure_errors
    \/ reservations_clear_reservations
    \/ reservations_publish
    \/ cadence_offers
    \/ begin_collect_offers
    \/ offers_collect_offers
    \/ offers_unformed_market_list
    \/ offers_publish
    \/ MakeReservation
    \/ MakeOffer

\* The platform starts the agent, the Director keeps calling back, and a
\* callback that has begun runs to its end.
FairCadence ==
    /\ WF_vars(onstart)
    /\ WF_vars(cadence_reservations)
    /\ WF_vars(reservations_send_market_failure_errors)
    /\ WF_vars(reservations_clear_reservations)
    /\ WF_vars(reservations_publish)
    /\ WF_vars(cadence_offers)
    /\ WF_vars(begin_collect_offers)
    /\ WF_vars(offers_collect_offers)
    /\ WF_vars(offers_unformed_market_list)
    /\ WF_vars(offers_publish)

SpecCadence == Init /\ [][NextCadence]_vars /\ FairCadence

(***************************************************************************)
(* Claims                                                                  *)
(***************************************************************************)
RejectedReservation == "RuntimeError: not accepting reservations"
RejectedOffer == "RuntimeError: not accepting offers"

\* A step that handles a request: it is no callback step, and it answers a
\* caller or changes the registry.
RequestStep ==
    /\ pc = "idle"
    /\ now' = now
    /\ response' # response \/ (market_list # None /\ market_list' # market_list)

\* C1: in every reachable state a make_reservation is accepted (handed to
\* accept_reservation, which forwards the caller as a participant to the
\* registry and returns without error) iff the phase is CollectReservations,
\* and is rejected with the reservation error otherwise; a make_offer is
\* accepted (handed to accept_offer, so that it is not answered with the
\* offer rejection, and what it stores is a parsed curve of the caller) iff
\* the phase is CollectOffers, and is rejected otherwise; a rejected request
\* does not reach the registry.
C1_AdmissionIffPhase ==
    [][ RequestStep =>
          /\ response'.op \in {"make_reservation", "make_offer"}
          /\ response'.op = "make_reservation" =>
                /\ (response'.result = "ok") <=> (state = COLLECT_RESERVATIONS)
                /\ (response'.result = RejectedReservation) <=> (state # COLLECT_RESERVATIONS)
                /\ state = COLLECT_RESERVATIONS =>
                      \E m \in Markets, r \in Roles :
                          market_list' = market_list_make_reservation(
                              market_list, m, MarketParticipant(r, response'.peer))
                /\ state # COLLECT_RESERVATIONS => market_list' = market_list
          /\ response'.op = "make_offer" =>
                /\ (response'.result # RejectedOffer) <=> (state = COLLECT_OFFERS)
                /\ response'.result = "ok" =>
                      \E m \in Markets, r \in Roles, o \in RawCurves :
                          /\ ~Malformed(o)
                          /\ market_list' = market_list_make_offer(
                                 market_list, m, MarketParticipant(r, response'.peer),
                                 fromTupples(o))
                /\ state # COLLECT_OFFERS => market_list' = market_list
      ]_vars

\* C1 witness: an offer was accepted and stored during CollectOffers, after
\* the reservations that formed its market were accepted.
C1_Witness ==
    /\ market_list # None
    /\ state = COLLECT_OFFERS
    /\ response.result = "ok"
    /\ \E m \in Markets : market_list.offers[m] # {}

\* C2: a trigger fired from a phase with no edge for it is a silent no-op:
\* the phase is unchanged and nothing is raised into the calling callback.
C2_IllegalTriggerNeverRaises ==
    /\ cb.outcome = "MachineError" => state = cb.from
    /\ cb.outcome # "MachineError"

\* C3 as claimed: in send_collect_reservations_request the start_reservations
\* trigger succeeds from every one of the four phases, so the phase after
\* the callback is CollectReservations.
C3_FiringAlwaysSucceeds ==
    cb.op = "reservations" =>
        /\ cb.outcome # "MachineError"
        /\ state = COLLECT_RESERVATIONS

\* C3 amended: the trigger succeeds from InitialWait, CollectOffers and
\* NoMarkets and fails exactly from CollectReservations, which has no
\* start_reservations edge; in every case the phase after the trigger, and
\* until the next callback, is CollectReservations.
C3_FiringSucceedsUnlessCollecting ==
    cb.op = "reservations" =>
        /\ state = COLLECT_RESERVATIONS
        /\ (cb.outcome = "MachineError") <=> (cb.from = COLLECT_RESERVATIONS)

\* C3 witness: a reservation callback that fired from NoMarkets has ended.
C3_Witness ==
    /\ cb.op = "reservations"
    /\ cb.from = NO_MARKETS
    /\ cb.outcome = "done"
    /\ state = COLLECT_RESERVATIONS

\* C4 as claimed: after every send_collect_offers_request, whatever the
\* phase it was called in, the phase is NoMarkets iff the registry held no
\* formed market at the call, and CollectOffers otherwise.
C4_PhaseAfterOffersAnyPhase ==
    (cb.op = "offers" /\ pc = "idle") =>
        /\ (state = NO_MARKETS) <=> ~cb.formed
        /\ cb.formed => state = COLLECT_OFFERS

\* C4 amended: the same, for every call made in a phase other than
\* InitialWait (a call in InitialWait finds no market and leaves the phase
\* InitialWait).
C4_PhaseAfterOffersOnceStarted ==
    (cb.op = "offers" /\ pc = "idle" /\ cb.from # INITIAL_WAIT) =>
        /\ (state = NO_MARKETS) <=> ~cb.formed
        /\ cb.formed => state = COLLECT_OFFERS

\* C4 witness: an offer callback called in CollectReservations with one
\* market formed and the other not has ended in CollectOffers.
C4_Witness ==
    /\ cb.op = "offers"
    /\ pc = "idle"
    /\ cb.from = COLLECT_RESERVATIONS
    /\ cb.formed
    /\ state = COLLECT_OFFERS
    /\ unformed_market_list(market_list) # <<>>

\* C5: the phase is always one of the four declared phases, and once it is
\* not InitialWait it is never InitialWait again.
C5_FourPhasesInitialWaitOnce ==
    /\ [](state \in states)
    /\ [][state # INITIAL_WAIT => state' # INITIAL_WAIT]_vars

\* C5 witness: the machine has been through a whole cycle and the Director
\* has used up its callbacks.
C5_Witness ==
    /\ state = NO_MARKETS
    /\ now = MaxCallbacks

\* C6: a step that answers a request with a phase rejection changes neither
\* the phase, the registry, the published notices nor the position of the
\* timer callbacks; the rejection goes to the caller of a request made
\* outside its phase, and to nobody else.
C6_RejectionChangesNothingShared ==
    [][ (RequestStep /\ response'.result \in {RejectedReservation, RejectedOffer}) =>
          /\ UNCHANGED <<state, market_list, published, pc, calls, cb, now>>
          /\ response'.result = RejectedReservation =>
                /\ state # COLLECT_RESERVATIONS
                /\ \E m \in Markets, r \in Roles :
                       make_reservation(m, r, response'.peer)
          /\ response'.result = RejectedOffer =>
                /\ state # COLLECT_OFFERS
                /\ \E m \in Markets, r \in Roles, o \in RawCurves :
                       make_offer(m, r, response'.peer, o)
      ]_vars

\* C6 witness: an offer was rejected while reservations were being collected
\* and the registry held some.
C6_Witness ==
    /\ response.result = RejectedOffer
    /\ state = COLLECT_RESERVATIONS
    /\ market_list # None
    /\ market_count(market_list) > 0

LastPublished == published[Len(published)]

\* C7: the step that publishes MARKET_RESERVE starts and ends in
\* CollectReservations, the step that publishes MARKET_BID starts and ends
\* in CollectOffers, and no step other than a timer callback's changes the
\* phase, so a request handled after the notice sees the new phase.
C7_PhaseSetBeforeNotice ==
    [][ /\ published' # published =>
              /\ Len(published') = Len(published) + 1
              /\ published'[Len(published')].topic = MARKET_RESERVE =>
                     (state = COLLECT_RESERVATIONS /\ state' = COLLECT_RESERVATIONS)
              /\ published'[Len(published')].topic = MARKET_BID =>
                     (state = COLLECT_OFFERS /\ state' = COLLECT_OFFERS)
        /\ (pc = "idle" /\ now' = now) => state' = state
      ]_vars

\* C7 witness: after the MARKET_BID notice an offer was handled and stored.
C7_Witness ==
    /\ published # <<>>
    /\ LastPublished.topic = MARKET_BID
    /\ pc = "idle"
    /\ response.result = "ok"
    /\ \E m \in Markets : market_list.offers[m] # {}

C9_NoMarketsPathDoesNothingElse ==
    [][ (now' # now /\ cb'.op = "offers" /\ ~cb'.formed) =>
          /\ calls' = <<"start_offers_no_markets">>
          /\ pc' = "idle"
          /\ published' = published
          /\ market_list' = market_list
      ]_vars

\* C9 witness: M1 holds a reservation for one role only, the offer callback
\* has ended in NoMarkets and the only notice so far is the reservation one.
C9_Witness ==
    /\ cb.op = "offers"
    /\ ~cb.formed
    /\ state = NO_MARKETS
    /\ unformed_market_list(market_list) = <<"M1">>
    /\ Len(published) = 1
    /\ LastPublished.topic = MARKET_RESERVE

\* C10: a send_collect_offers_request that finds a formed market performs,
\* in this order and once each, the start_offers_has_markets trigger (the
\* phase becomes CollectOffers), collect_offers on the registry and one
\* MARKET_BID notice carrying the timestamp and the registry's list of
\* unformed markets, in which no formed market appears.
C10_HasMarketsPathRunsToNotice ==
    (cb.op = "offers" /\ cb.formed /\ pc = "idle") =>
        /\ calls = <<"start_offers_has_markets", "collect_offers", "publish">>
        /\ state = COLLECT_OFFERS
        /\ published # <<>>
        /\ LastPublished.topic = MARKET_BID
        /\ LastPublished.message[1] = format_timestamp(timestamp)
        /\ LastPublished.message[2] = unformed_market_list(market_list)
        /\ \A i \in 1..Len(LastPublished.message[2]) :
               ~has_market_formed(market_list, LastPublished.message[2][i])

\* C11: every send_collect_reservations_request, after firing
\* start_reservations, reports the failed markets, then clears the
\* reservations, then publishes exactly one MARKET_RESERVE notice carrying
\* the callback's timestamp.
C11_ReservationCallbackRunsToNotice ==
    (cb.op = "reservations" /\ pc = "idle") =>
        /\ calls = <<"start_reservations", "send_market_failure_errors",
                     "clear_reservations", "publish">>
        /\ published # <<>>
        /\ LastPublished = Notice(MARKET_RESERVE, format_timestamp(timestamp))

\* C12: a make_offer received in CollectOffers whose raw curve cannot be
\* parsed is answered, to its caller, with the malformed-curve error, which
\* is not the phase rejection (no offer step of CollectOffers with another
\* answer is the step of an unparsable curve); the phase stays
\* CollectOffers, the registry is unchanged and nothing is published.
C12_MalformedCurveChangesNothing ==
    [][ /\ (RequestStep /\ response'.result = "MalformedCurve") =>
              /\ response'.op = "make_offer"
              /\ response'.result # RejectedOffer
              /\ state = COLLECT_OFFERS
              /\ state' = COLLECT_OFFERS
              /\ market_list' = market_list
              /\ published' = published
              /\ \E o \in RawCurves, m \in Markets, r \in Roles :
                    Malformed(o) /\ make_offer(m, r, response'.peer, o)
        /\ (RequestStep /\ state = COLLECT_OFFERS /\ response'.op = "make_offer"
               /\ response'.result # "MalformedCurve") =>
              \A o \in RawCurves : Malformed(o) =>
                 \A m \in Markets, r \in Roles :
                    ~make_offer(m, r, response'.peer, o)
      ]_vars

\* C12 witness: in CollectOffers, with M1 formed and collecting, the last
\* request was an offer answered with the malformed-curve error.
C12_Witness ==
    /\ state = COLLECT_OFFERS
    /\ pc = "idle"
    /\ "M1" \in market_list.collecting
    /\ response.op = "make_offer"
    /\ response.result = "MalformedCurve"

\* C14: from CollectOffers, the first of two start_reservations firings in
\* immediate succession moves the phase to CollectReservations and the
\* second fails, for lack of an edge, and leaves it there; and a
\* reservation callback entered in CollectOffers fires, one entered in
\* CollectReservations fails, both leaving the phase CollectReservations.
C14_SecondStartReservationsFails ==
    /\ state = COLLECT_OFFERS =>
          LET first == Fire("start_reservations", state)
              second == Fire("start_reservations", first.state)
          IN /\ ~first.raised
             /\ first.state = COLLECT_RESERVATIONS
             /\ second.raised
             /\ ~HasEdge("start_reservations", COLLECT_RESERVATIONS)
             /\ second.state = COLLECT_RESERVATIONS
    /\ (cb.op = "reservations" /\ cb.from = COLLECT_OFFERS) =>
          cb.outcome # "MachineError" /\ state = COLLECT_RESERVATIONS
    /\ (cb.op = "reservations" /\ cb.from = COLLECT_RESERVATIONS) =>
          cb.outcome = "MachineError" /\ state = COLLECT_RESERVATIONS

\* C14 witness: a reservation callback that was entered in CollectOffers has
\* fired and the phase is CollectReservations, where a second firing follows.
C14_Witness ==
    /\ cb.op = "reservations"
    /\ cb.from = COLLECT_OFFERS
    /\ state = COLLECT_RESERVATIONS
    /\ pc = "idle"

\* C16: has_any_markets, the count of unformed markets being less than the
\* count of markets, is true exactly when some market of the registry has
\* both a buyer and a seller reserved; it is false for an empty registry and
\* for a registry whose only market has a reservation for one role.
C16_HasAnyMarketsIffSomeMarketFormed ==
    market_list # None =>
        /\ has_any_markets <=>
              \E m \in Markets :
                 \E b, s \in market_list.reservations[m] :
                    b.buyer_seller = "buyer" /\ s.buyer_seller = "seller"
        /\ market_count(market_list) = 0 => ~has_any_markets
        /\ (market_count(market_list) = 1 /\
            \A m \in Markets : \A p \in market_list.reservations[m] :
                                  p.buyer_seller = "buyer")
              => ~has_any_markets

\* C16 witness: M1 holds a buyer only, M2 holds a buyer and a seller.
C16_Witness ==
    /\ market_list # None
    /\ \A p \in market_list.reservations["M1"] : p.buyer_seller = "buyer"
    /\ market_list.reservations["M1"] # {}
    /\ has_market_formed(market_list, "M2")
    /\ has_any_markets

\* C17: once the phase has left InitialWait the registry exists, and while
\* there is no registry every request is answered with a phase rejection.
C17_RegistryBeforeAdmission ==
    /\ state # INITIAL_WAIT => market_list # None
    /\ market_list = None =>
          /\ state = INITIAL_WAIT
          /\ response.result \in {"none", RejectedReservation, RejectedOffer}

\* C17 witness: a reservation arrived before onstart and was rejected.
C17_Witness ==
    /\ market_list = None
    /\ response.op = "make_reservation"
    /\ response.result = RejectedReservation

\* C18: a reservation held by the registry leaves it only in the
\* clear_reservations step of a reservation callback whose trigger fired
\* after an offer-window callback had ended the reservation window (so it is
\* held when that callback evaluates has_any_markets and through the offer
\* window), and no reservation enters the registry while a callback runs.
C18_ReservationsKeptWithinCycle ==
    [][ market_list # None =>
          /\ (\E m \in Markets :
                 ~(market_list.reservations[m] \subseteq market_list'.reservations[m]))
               => /\ pc = "L187"
                  /\ cb.op = "reservations"
                  /\ cb.from \in {COLLECT_OFFERS, NO_MARKETS}
                  /\ state = COLLECT_RESERVATIONS
          /\ (\E m \in Markets :
                 ~(market_list'.reservations[m] \subseteq market_list.reservations[m]))
               => /\ pc = "idle"
                  /\ state = COLLECT_RESERVATIONS
                  /\ cb.outcome \in {"done", "MachineError"}
      ]_vars

\* C18 witness: an offer-window callback has run to its notice, the phase is
\* CollectOffers and both reservations of M1 are still in the registry.
C18_Witness ==
    /\ state = COLLECT_OFFERS
    /\ pc = "idle"
    /\ cb.op = "offers"
    /\ cb.outcome = "done"
    /\ Cardinality(market_list.reservations["M1"]) = 2

\* C19: a MARKET_BID notice is never the first notice and always follows a
\* MARKET_RESERVE notice directly, and the lines that lead to it run only in
\* a callback whose start_offers_has_markets trigger moved the phase to
\* CollectOffers.
C19_BidOnlyAfterReserve ==
    /\ \A i \in 1..Len(published) :
          published[i].topic = MARKET_BID =>
             /\ i > 1
             /\ published[i - 1].topic = MARKET_RESERVE
    /\ pc \in {"L201", "L202", "L203"} =>
          /\ state = COLLECT_OFFERS
          /\ cb.from = COLLECT_RESERVATIONS
          /\ calls[1] = "start_offers_has_markets"

\* C19 witness: after a MARKET_BID notice a second offer-window callback
\* found a formed market and ended without publishing.
C19_Witness ==
    /\ Len(published) = 2
    /\ LastPublished.topic = MARKET_BID
    /\ cb.op = "offers"
    /\ cb.formed
    /\ cb.from = COLLECT_OFFERS
    /\ pc = "idle"

\* C20: no step that is not the entry of a timer callback changes the phase;
\* a make_reservation that is taken in changes the registry by exactly the
\* intake of its market name, role and caller, and a make_offer that is
\* taken in by exactly the intake of its market name, role, caller and
\* parsed curve.
C20_OnlyCallbacksChangePhase ==
    [][ /\ (pc = "idle" /\ now' = now) => state' = state
        /\ (RequestStep /\ response'.op = "make_reservation" /\ response'.result = "ok") =>
              \A m \in Markets, r \in Roles :
                 make_reservation(m, r, response'.peer) =>
                    market_list' = market_list_make_reservation(
                                       market_list, m, MarketParticipant(r, response'.peer))
        /\ (RequestStep /\ response'.op = "make_offer" /\ response'.result = "ok") =>
              \A m \in Markets, r \in Roles, o \in RawCurves :
                 make_offer(m, r, response'.peer, o) =>
                    market_list' = market_list_make_offer(
                                       market_list, m, MarketParticipant(r, response'.peer),
                                       fromTupples(o))
      ]_vars

\* C20 witness: a seller's reservation and then an offer were taken in and
\* the phase is the one the last callback left.
C20_Witness ==
    /\ state = COLLECT_OFFERS
    /\ pc = "idle"
    /\ response.op = "make_offer"
    /\ response.result = "ok"
    /\ \E p \in market_list.reservations["M2"] : p.buyer_seller = "seller"
    /\ market_list.offers["M2"] # {}

\* C13: under the Director's cadence no trigger is ever illegal, the phase
\* changes only from CollectReservations to CollectOffers or NoMarkets and
\* from any other phase to CollectReservations, and, as long as the Director
\* has a callback left to make, CollectOffers and NoMarkets lead back to
\* CollectReservations and CollectReservations leads on to CollectOffers or
\* NoMarkets: CollectReservations is entered again in every market period.
C13_PhasesCycleUnderCadence ==
    /\ [](cb.outcome # "MachineError")
    /\ [][ state' # state =>
             \/ state = COLLECT_RESERVATIONS /\ state' \in {COLLECT_OFFERS, NO_MARKETS}
             \/ state # COLLECT_RESERVATIONS /\ state' = COLLECT_RESERVATIONS ]_vars
    /\ <>(state = COLLECT_RESERVATIONS)
    /\ (state \in {COLLECT_OFFERS, NO_MARKETS} /\ now < MaxCallbacks)
          ~> (state = COLLECT_RESERVATIONS)
    /\ (state = COLLECT_RESERVATIONS /\ now < MaxCallbacks)
          ~> (state \in {COLLECT_OFFERS, NO_MARKETS})
    /\ <>[](now = MaxCallbacks /\ pc = "idle")

\* C13 witness: one whole period has passed under the cadence: reservation
\* notice, offer notice, and the reservation notice of the next period.
C13_Witness ==
    /\ cb.op = "reservations"
    /\ cb.from = COLLECT_OFFERS
    /\ cb.outcome = "done"
    /\ Len(published) = 3
    /\ published[2].topic = MARKET_BID

\* C15: an agent configured with offer_delay >= market_period never starts:
\* it has no registry, takes no callback and stays in InitialWait.
C15_MisconfigurationRefusesToStart ==
    director.offer_delay >= director.market_period =>
        /\ market_list = None
        /\ cb.op = "none"
        /\ state = INITIAL_WAIT
====
